---- MODULE Spec2Model ----
(***************************************************************************)
(* Model of conversation_analyzer.py: the format normaliser                *)
(* (load_conversation_file), detect_participants, extract_topics, the two  *)
(* time functions (categorize_time_period, calculate_duration) and the     *)
(* aggregation pass get_basic_stats.                                       *)
(*                                                                         *)
(* A Python str is a sequence of one-character strings, a dict is a        *)
(* function whose domain is its key set, a list is a sequence.  A call     *)
(* that can raise yields a record [raised |-> <exception or "none">, ...]. *)
(***************************************************************************)
EXTENDS Integers, Sequences, FiniteSets, TLC

VARIABLES
    pc,            \* position of the running call
    start_time,    \* argument of categorize_time_period / calculate_duration
    end_time,      \* second argument of calculate_duration
    period,        \* outcome of categorize_time_period
    duration,      \* outcome of calculate_duration
    data,          \* the canonical Log handed to the analysis functions
    stats,         \* the StatisticsRecord under construction
    i,             \* number of loop iterations of get_basic_stats completed
    raised,        \* exception that ended get_basic_stats, or "none"
    participants,  \* outcome of detect_participants
    top_n,         \* argument of extract_topics
    topics,        \* outcome of extract_topics
    filepath,      \* argument of load_conversation_file
    raw_data,      \* what json.load returned, per input shape
    run,           \* index of the input shape being analysed
    loaded,        \* outcome of load_conversation_file, per input shape
    records        \* outcome of get_basic_stats, per input shape

vars == <<pc, start_time, end_time, period, duration, data, stats, i, raised,
          participants, top_n, topics, filepath, raw_data, run, loaded, records>>

timeVars == <<start_time, end_time, period, duration>>
statsVars == <<stats, i, raised>>
topicVars == <<top_n, topics>>
loadVars == <<filepath, raw_data, run, loaded, records>>

\* an outcome not yet produced
Unset == [raised |-> "unset"]

\* Python's None
PyNone == [is_none |-> TRUE]

----------------------------------------------------------------------------
(* Characters and strings *)

\* The characters the model uses, in code point order.
CodePoints ==
    <<" ", "!", "'", ",", "-", ".", "/",
      "0", "1", "2", "3", "4", "5", "6", "7", "8", "9", ":",
      "A", "B", "C", "D", "E", "F", "G", "H", "I", "J", "K", "L", "M",
      "N", "O", "P", "Q", "R", "S", "T", "U", "V", "W", "X", "Y", "Z",
      "[", "]", "_",
      "a", "b", "c", "d", "e", "f", "g", "h", "i", "j", "k", "l", "m",
      "n", "o", "p", "q", "r", "s", "t", "u", "v", "w", "x", "y", "z">>

Ord(c) == CHOOSE k \in 1..Len(CodePoints) : CodePoints[k] = c

DigitChars == <<"0", "1", "2", "3", "4", "5", "6", "7", "8", "9">>
UpperChars == <<"A", "B", "C", "D", "E", "F", "G", "H", "I", "J", "K", "L", "M", "N", "O", "P", "Q", "R", "S", "T", "U", "V", "W", "X", "Y", "Z">>
LowerChars == <<"a", "b", "c", "d", "e", "f", "g", "h", "i", "j", "k", "l", "m", "n", "o", "p", "q", "r", "s", "t", "u", "v", "w", "x", "y", "z">>

Range(s) == {s[k] : k \in 1..Len(s)}

IsDigit(c) == c \in Range(DigitChars)
DigitVal(c) == (CHOOSE k \in 1..10 : DigitChars[k] = c) - 1

\* str.isalnum on one character
IsAlnum(c) == c \in Range(DigitChars) \cup Range(UpperChars) \cup Range(LowerChars)

\* re's \s on one character
IsSpace(c) == c = " "

\* str.lower
LowerChar(c) ==
    IF c \in Range(UpperChars)
    THEN LowerChars[CHOOSE k \in 1..26 : UpperChars[k] = c]
    ELSE c
Lower(s) == [k \in 1..Len(s) |-> LowerChar(s[k])]

\* s[from:] of Python, with a 1-based from
Tail2(s, from) == SubSeq(s, from, Len(s))

\* str.startswith
StartsWith(s, p) == Len(s) >= Len(p) /\ SubSeq(s, 1, Len(p)) = p

\* `p in s` for strings
Contains(s, p) ==
    \E k \in 1..(Len(s) - Len(p) + 1) : SubSeq(s, k, k + Len(p) - 1) = p

\* str.replace(old, "") : left to right, non-overlapping
RECURSIVE Remove(_, _)
Remove(s, old) ==
    IF s = <<>> THEN <<>>
    ELSE IF StartsWith(s, old) THEN Remove(Tail2(s, Len(old) + 1), old)
    ELSE <<s[1]>> \o Remove(Tail(s), old)

\* str.split(sep) for a one-character separator: keeps empty pieces
RECURSIVE SplitOn(_, _)
SplitOn(s, sep) ==
    IF \A k \in 1..Len(s) : s[k] # sep THEN <<s>>
    ELSE LET k == CHOOSE j \in 1..Len(s) : s[j] = sep /\ \A m \in 1..(j - 1) : s[m] # sep
         IN <<SubSeq(s, 1, k - 1)>> \o SplitOn(Tail2(s, k + 1), sep)

\* str.split() : split on runs of whitespace, no empty pieces
RECURSIVE SplitWs(_)
SplitWs(s) ==
    IF s = <<>> THEN <<>>
    ELSE IF IsSpace(s[1]) THEN SplitWs(Tail(s))
    ELSE LET n == IF \A k \in 1..Len(s) : ~IsSpace(s[k]) THEN Len(s)
                  ELSE (CHOOSE j \in 1..Len(s) :
                            IsSpace(s[j]) /\ \A m \in 1..(j - 1) : ~IsSpace(s[m])) - 1
         IN <<SubSeq(s, 1, n)>> \o SplitWs(Tail2(s, n + 1))

\* Python's < on str: lexicographic by code point
RECURSIVE StrLess(_, _)
StrLess(a, b) ==
    IF b = <<>> THEN FALSE
    ELSE IF a = <<>> THEN TRUE
    ELSE IF a[1] # b[1] THEN Ord(a[1]) < Ord(b[1])
    ELSE StrLess(Tail(a), Tail(b))

----------------------------------------------------------------------------
(* datetime.strptime(time_string, "%I:%M %p") *)

\* the field %I: 1[0-2]|0[1-9]|[1-9]
HourFieldLen(s) ==
    IF Len(s) >= 2 /\ s[1] = "1" /\ s[2] \in {"0", "1", "2"} THEN 2
    ELSE IF Len(s) >= 2 /\ s[1] = "0" /\ IsDigit(s[2]) /\ s[2] # "0" THEN 2
    ELSE IF Len(s) >= 1 /\ IsDigit(s[1]) /\ s[1] # "0" THEN 1
    ELSE 0

\* the field %M: [0-5]\d|\d
MinuteFieldLen(s) ==
    IF Len(s) >= 2 /\ s[1] \in {"0", "1", "2", "3", "4", "5"} /\ IsDigit(s[2]) THEN 2
    ELSE IF Len(s) >= 1 /\ IsDigit(s[1]) THEN 1
    ELSE 0

\* \s+ : the length of the leading run of whitespace
RECURSIVE SpaceRunLen(_)
SpaceRunLen(s) ==
    IF s # <<>> /\ IsSpace(s[1]) THEN 1 + SpaceRunLen(Tail(s)) ELSE 0

\* int() of a string of one or two digits
DigitsVal(s) ==
    IF Len(s) = 1 THEN DigitVal(s[1]) ELSE 10 * DigitVal(s[1]) + DigitVal(s[2])

\* The datetime the call returns (its hour and minute), or ValueError when
\* the string does not match the format or data remains after the match.
Strptime(time_string) ==
    LET bad == [raised |-> "ValueError", hour |-> 0, minute |-> 0]
        hl == HourFieldLen(time_string)
        r1 == Tail2(time_string, hl + 1)
        r2 == Tail2(r1, 2)
        ml == MinuteFieldLen(r2)
        r3 == Tail2(r2, ml + 1)
        sl == SpaceRunLen(r3)
        r4 == Tail2(r3, sl + 1)
        ampm == Lower(r4)
        I == DigitsVal(SubSeq(time_string, 1, hl))
        hour == IF ampm = <<"a", "m">>
                THEN (IF I = 12 THEN 0 ELSE I)
                ELSE (IF I # 12 THEN I + 12 ELSE I)
    IN  IF hl = 0 THEN bad
        ELSE IF r1 = <<>> \/ r1[1] # ":" THEN bad
        ELSE IF ml = 0 THEN bad
        ELSE IF sl = 0 THEN bad
        ELSE IF Len(r4) < 2 \/ Lower(SubSeq(r4, 1, 2)) \notin {<<"a", "m">>, <<"p", "m">>} THEN bad
        ELSE IF Len(r4) # 2 THEN bad
        ELSE [raised |-> "none", hour |-> hour,
              minute |-> DigitsVal(SubSeq(r2, 1, ml))]

----------------------------------------------------------------------------
(* categorize_time_period and calculate_duration *)

\* mutant: the upper limits of the periods taken inclusively
PeriodOfHour_Inclusive(hour) ==
    IF 6 <= hour /\ hour <= 12 THEN "Morning"
    ELSE IF 12 <= hour /\ hour <= 17 THEN "Afternoon"
    ELSE IF 17 <= hour /\ hour <= 22 THEN "Evening"
    ELSE "Night"

PeriodOfHour(hour) ==
    IF 6 <= hour /\ hour < 12 THEN "Morning"
    ELSE IF 12 <= hour /\ hour < 17 THEN "Afternoon"
    ELSE IF 17 <= hour /\ hour < 22 THEN "Evening"
    ELSE "Night"

categorize_time_period(time_string) ==
    LET time_obj == Strptime(time_string)
    IN  IF time_obj.raised # "none"
        THEN [raised |-> time_obj.raised, value |-> "none"]
        ELSE [raised |-> "none", value |-> PeriodOfHour(time_obj.hour)]

\* int(x / y) : the quotient truncated toward zero
IntTrunc(x, y) == IF x >= 0 THEN x \div y ELSE -((-x) \div y)

\* (end - start).total_seconds() of two datetimes of the same default date
TotalSeconds(start, end) ==
    (end.hour * 3600 + end.minute * 60) - (start.hour * 3600 + start.minute * 60)

\* mutant: an end before the start is taken to be on the next day
calculate_duration_Rollover(start_t, end_t) ==
    LET start == Strptime(start_t)
        end == Strptime(end_t)
        minutes == IntTrunc(TotalSeconds(start, end), 60)
    IN  IF start.raised # "none" THEN [raised |-> start.raised, value |-> 0]
        ELSE IF end.raised # "none" THEN [raised |-> end.raised, value |-> 0]
        ELSE [raised |-> "none",
              value |-> IF minutes < 0 THEN minutes + 1440 ELSE minutes]

calculate_duration(start_t, end_t) ==
    LET start == Strptime(start_t)
        end == Strptime(end_t)
    IN  IF start.raised # "none" THEN [raised |-> start.raised, value |-> 0]
        ELSE IF end.raised # "none" THEN [raised |-> end.raised, value |-> 0]
        ELSE [raised |-> "none", value |-> IntTrunc(TotalSeconds(start, end), 60)]

----------------------------------------------------------------------------
(* Timestamps the time functions are applied to *)

TwoDigits(n) == <<DigitChars[(n \div 10) + 1], DigitChars[(n % 10) + 1]>>

\* "hh:mm AM" / "hh:mm PM"
Stamp(h, m, ap) == TwoDigits(h) \o <<":">> \o TwoDigits(m) \o <<" ">> \o ap

WellFormedTimes ==
    {Stamp(h, m, ap) : h \in 1..12, m \in 0..59, ap \in {<<"A", "M">>, <<"P", "M">>}}

\* strings strptime accepts although they are not of the two-digit form
LenientTimes == {<<"9", ":", "0", "5", " ", "A", "M">>, <<"0", "9", ":", "0", "0", " ", "p", "m">>, <<"0", "9", ":", "0", "0", " ", " ", "P", "M">>, <<"1", "0", ":", "7", " ", "P", "M">>}

MalformedTimes ==
    {<<"1", "3", ":", "0", "0", " ", "P", "M">>, <<"0", "0", ":", "3", "0", " ", "A", "M">>, <<"0", "9", ":", "6", "0", " ", "A", "M">>, <<"0", "9", ":", "0", "0">>, <<>>, <<"0", "9", "0", "0", " ", "A", "M">>,
     <<"0", "9", ":", "0", "0", " ", "P", "M", "X">>, <<"1", "0", ":", "7", "5", " ", "P", "M">>, <<" ", "0", "9", ":", "0", "0", " ", "A", "M">>, <<"0", "9", ":", "0", "0", " ", "A", "M", " ">>, <<"0", "9", ":", "0", "0", "P", "M">>}

StartTimes == WellFormedTimes \cup LenientTimes \cup MalformedTimes

EndTimes ==
    {Stamp(h, m, ap) : h \in {12, 1, 3, 11}, m \in {0, 5, 8, 59}, ap \in {<<"A", "M">>, <<"P", "M">>}}
        \cup {<<"9", ":", "0", "5", " ", "A", "M">>, <<"1", "3", ":", "0", "0", " ", "P", "M">>, <<"0", "9", ":", "6", "0", " ", "A", "M">>}

InitTime ==
    /\ pc = "time"
    /\ start_time \in StartTimes
    /\ end_time \in EndTimes
    /\ period = Unset
    /\ duration = Unset

CategorizeTimePeriod ==
    /\ pc = "time"
    /\ period' = categorize_time_period(start_time)
    /\ pc' = "categorized"
    /\ UNCHANGED <<start_time, end_time, duration>>

CalculateDuration ==
    /\ pc = "time"
    /\ duration' = calculate_duration(start_time, end_time)
    /\ pc' = "measured"
    /\ UNCHANGED <<start_time, end_time, period>>

----------------------------------------------------------------------------
(* detect_participants *)

\* str(message['content']) for content that is not a str: the repr of a
\* list of plain strings
RECURSIVE JoinQuoted(_)
JoinQuoted(items) ==
    IF items = <<>> THEN <<>>
    ELSE <<"'">> \o items[1] \o <<"'">>
         \o (IF Len(items) > 1 THEN <<",", " ">> ELSE <<>>) \o JoinQuoted(Tail(items))

PyStr(content) == <<"[">> \o JoinQuoted(content.items) \o <<"]">>

\* lines 119-122 and 270-273: the text of a message
ContentText(message) ==
    IF message.content.kind = "str" THEN message.content.text
    ELSE PyStr(message.content)

\* every message of the Log, conversation by conversation
RECURSIVE AllMessages(_)
AllMessages(conversations) ==
    IF conversations = <<>> THEN <<>>
    ELSE conversations[1].messages \o AllMessages(Tail(conversations))

\* sorted() of a set of strings
RECURSIVE SortedStrings(_)
SortedStrings(S) ==
    IF S = {} THEN <<>>
    ELSE LET least == CHOOSE x \in S : \A y \in S \ {x} : StrLess(x, y)
         IN <<least>> \o SortedStrings(S \ {least})

\* mutant: the roles in the order they are first met, not sorted
RECURSIVE FirstMetRoles(_, _)
FirstMetRoles(msgs, seen) ==
    IF msgs = <<>> THEN seen
    ELSE FirstMetRoles(Tail(msgs),
                       IF msgs[1].role \in Range(seen) THEN seen
                       ELSE Append(seen, msgs[1].role))
detect_participants_Unsorted(d) == FirstMetRoles(AllMessages(d.conversations), <<>>)

detect_participants(d) ==
    LET msgs == AllMessages(d.conversations)
        roles == {msgs[k].role : k \in 1..Len(msgs)}
    IN SortedStrings(roles)

----------------------------------------------------------------------------
(* extract_topics *)

stop_words ==
    {<<"t", "h", "e">>, <<"b", "e">>, <<"t", "o">>, <<"o", "f">>, <<"a", "n", "d">>, <<"a">>, <<"i", "n">>, <<"t", "h", "a", "t">>, <<"h", "a", "v", "e">>, <<"i">>,
     <<"i", "t">>, <<"f", "o", "r">>, <<"n", "o", "t">>, <<"o", "n">>, <<"w", "i", "t", "h">>, <<"h", "e">>, <<"a", "s">>, <<"y", "o", "u">>, <<"d", "o">>, <<"a", "t">>,
     <<"t", "h", "i", "s">>, <<"b", "u", "t">>, <<"h", "i", "s">>, <<"b", "y">>, <<"f", "r", "o", "m">>, <<"t", "h", "e", "y">>, <<"w", "e">>, <<"s", "a", "y">>, <<"h", "e", "r">>, <<"s", "h", "e">>,
     <<"o", "r">>, <<"a", "n">>, <<"w", "i", "l", "l">>, <<"m", "y">>, <<"o", "n", "e">>, <<"a", "l", "l">>, <<"w", "o", "u", "l", "d">>, <<"t", "h", "e", "r", "e">>, <<"t", "h", "e", "i", "r">>,
     <<"w", "h", "a", "t">>, <<"s", "o">>, <<"u", "p">>, <<"o", "u", "t">>, <<"i", "f">>, <<"a", "b", "o", "u", "t">>, <<"w", "h", "o">>, <<"g", "e", "t">>, <<"w", "h", "i", "c", "h">>, <<"g", "o">>,
     <<"m", "e">>, <<"w", "h", "e", "n">>, <<"m", "a", "k", "e">>, <<"c", "a", "n">>, <<"l", "i", "k", "e">>, <<"t", "i", "m", "e">>, <<"n", "o">>, <<"j", "u", "s", "t">>, <<"h", "i", "m">>, <<"k", "n", "o", "w">>,
     <<"t", "a", "k", "e">>, <<"i", "n", "t", "o">>, <<"y", "o", "u", "r">>, <<"s", "o", "m", "e">>, <<"c", "o", "u", "l", "d">>, <<"t", "h", "e", "m">>, <<"s", "e", "e">>, <<"o", "t", "h", "e", "r">>, <<"t", "h", "a", "n">>,
     <<"t", "h", "e", "n">>, <<"n", "o", "w">>, <<"l", "o", "o", "k">>, <<"o", "n", "l", "y">>, <<"c", "o", "m", "e">>, <<"i", "t", "s">>, <<"o", "v", "e", "r">>, <<"t", "h", "i", "n", "k">>, <<"a", "l", "s", "o">>,
     <<"b", "a", "c", "k">>, <<"a", "f", "t", "e", "r">>, <<"u", "s", "e">>, <<"t", "w", "o">>, <<"h", "o", "w">>, <<"o", "u", "r">>, <<"w", "o", "r", "k">>, <<"f", "i", "r", "s", "t">>, <<"w", "e", "l", "l">>,
     <<"w", "a", "y">>, <<"e", "v", "e", "n">>, <<"n", "e", "w">>, <<"w", "a", "n", "t">>, <<"b", "e", "c", "a", "u", "s", "e">>, <<"a", "n", "y">>, <<"t", "h", "e", "s", "e">>, <<"g", "i", "v", "e">>, <<"d", "a", "y">>,
     <<"m", "o", "s", "t">>, <<"u", "s">>, <<"i", "s">>, <<"w", "a", "s">>, <<"a", "r", "e">>, <<"b", "e", "e", "n">>, <<"h", "a", "s">>, <<"h", "a", "d">>, <<"w", "e", "r", "e">>, <<"s", "a", "i", "d">>,
     <<"d", "i", "d">>, <<"h", "a", "v", "i", "n", "g">>, <<"m", "a", "y">>, <<"a", "m">>, <<"a", "r", "e">>, <<"i", "m">>, <<"y", "o", "u", "r", "e">>, <<"t", "h", "a", "t", "s">>, <<"d", "o", "n", "t">>,
     <<"i", "v", "e">>, <<"i", "s", "n", "t">>, <<"a", "r", "e", "n", "t">>, <<"w", "a", "s", "n", "t">>, <<"w", "e", "r", "e", "n", "t">>, <<"w", "o", "n", "t">>, <<"c", "a", "n", "t">>, <<"c", "o", "u", "l", "d", "n", "t">>}

\* line 130: the word without its non-alphanumeric characters
CleanWord(word) == SelectSeq(word, IsAlnum)

\* line 133: the words that are not counted
IsSkipped(clean_word) == Len(clean_word) < 3 \/ clean_word \in stop_words

\* lines 137-140 on the dict word_counts, kept as its items in insertion order
CountWord(word_counts, clean_word) ==
    IF \E k \in 1..Len(word_counts) : word_counts[k][1] = clean_word
    THEN [k \in 1..Len(word_counts) |->
            IF word_counts[k][1] = clean_word
            THEN <<clean_word, word_counts[k][2] + 1>>
            ELSE word_counts[k]]
    ELSE Append(word_counts, <<clean_word, 1>>)

\* lines 128-140: the loop over the words of one message
RECURSIVE CountWords(_, _)
CountWords(word_counts, words) ==
    IF words = <<>> THEN word_counts
    ELSE LET clean_word == CleanWord(words[1])
         IN CountWords(IF IsSkipped(clean_word) THEN word_counts
                       ELSE CountWord(word_counts, clean_word),
                       Tail(words))

\* lines 116-140: the loop over the messages
RECURSIVE CountMessages(_, _)
CountMessages(word_counts, msgs) ==
    IF msgs = <<>> THEN word_counts
    ELSE CountMessages(
            CountWords(word_counts, SplitWs(Lower(ContentText(msgs[1])))),
            Tail(msgs))

\* the comparison of sorted(key=lambda x: x[1], reverse=True): x goes
\* before y when its key is larger
SortsBefore(x, y) == x[2] > y[2]

\* mutant: equal counts come out in reverse order (an ascending sort,
\* reversed): the last item that no other item sorts before, then the rest
RECURSIVE SortedTopics_TiesReversed(_)
SortedTopics_TiesReversed(items) ==
    IF items = <<>> THEN <<>>
    ELSE LET k == CHOOSE j \in 1..Len(items) :
                    /\ \A m \in 1..Len(items) : ~SortsBefore(items[m], items[j])
                    /\ \A m \in (j + 1)..Len(items) : SortsBefore(items[j], items[m])
         IN <<items[k]>>
            \o SortedTopics_TiesReversed(SubSeq(items, 1, k - 1) \o Tail2(items, k + 1))

\* line 143: the stable sort: the first item that no other item sorts
\* before, then the rest
RECURSIVE SortedTopics(_)
SortedTopics(items) ==
    IF items = <<>> THEN <<>>
    ELSE LET k == CHOOSE j \in 1..Len(items) :
                    /\ \A m \in 1..Len(items) : ~SortsBefore(items[m], items[j])
                    /\ \A m \in 1..(j - 1) : SortsBefore(items[j], items[m])
         IN <<items[k]>>
            \o SortedTopics(SubSeq(items, 1, k - 1) \o Tail2(items, k + 1))

\* line 146: sorted_topics[:top_n] for top_n >= 0
FirstN(seq, n) == SubSeq(seq, 1, IF n < Len(seq) THEN n ELSE Len(seq))

extract_topics(d, n) ==
    FirstN(SortedTopics(CountMessages(<<>>, AllMessages(d.conversations))), n)

----------------------------------------------------------------------------
(* get_basic_stats *)

\* lines 204-226: the record before the loop; data['date'] raises KeyError
\* when the key is missing
NewStats(d) ==
    LET ps == detect_participants(d)
        P == Range(ps)
    IN  IF "date" \notin DOMAIN d
        THEN [raised |-> "KeyError", stats |-> PyNone]
        ELSE [raised |-> "none",
              stats |->
                [date |-> d.date,
                 num_conversations |-> Len(d.conversations),
                 total_messages |-> 0,
                 participants |-> ps,
                 messages_by_participant |-> [p \in P |-> 0],
                 conversation_lengths |-> <<>>,
                 shortest_conversation |-> PyNone,
                 longest_conversation |-> PyNone,
                 time_periods |-> [Morning |-> 0, Afternoon |-> 0,
                                   Evening |-> 0, Night |-> 0],
                 conversations_started_by |-> [p \in P |-> 0],
                 message_lengths_by_participant |-> [p \in P |-> <<>>]]]

\* mutant: <= in place of <, so that the last of equal sessions wins
IsNewShortest_OrEqual(message_count, shortest_conversation) ==
    \/ shortest_conversation = PyNone
    \/ message_count <= shortest_conversation.message_count

\* line 259
IsNewShortest(message_count, shortest_conversation) ==
    \/ shortest_conversation = PyNone
    \/ message_count < shortest_conversation.message_count

\* line 262
IsNewLongest(message_count, longest_conversation) ==
    \/ longest_conversation = PyNone
    \/ message_count > longest_conversation.message_count

\* lines 266-278: the loop over the messages of one conversation
RECURSIVE CountMessagesOf(_, _)
CountMessagesOf(st, msgs) ==
    IF msgs = <<>> THEN st
    ELSE LET message == msgs[1]
             msg_length == Len(ContentText(message))
             participant == message.role
         IN CountMessagesOf(
              [st EXCEPT
                 !.total_messages = @ + 1,
                 !.messages_by_participant[participant] = @ + 1,
                 !.message_lengths_by_participant[participant] =
                     Append(@, msg_length)],
              Tail(msgs))

\* mutant: the period counts sessions, not messages
AddToPeriod_One(time_periods, time_period, message_count) ==
    [time_periods EXCEPT ![time_period] = @ + 1]

\* line 241: the message count goes to the period of the start time
AddToPeriod(time_periods, time_period, message_count) ==
    [time_periods EXCEPT ![time_period] = @ + message_count]

\* lines 229-278: one iteration of the loop, for the conversation at list
\* index idx (from 0).  The stats are those the iteration leaves behind,
\* also when it raises.
ProcessConversation(st, conversation, idx) ==
    LET message_count == Len(conversation.messages)
        dur == calculate_duration(conversation.start_time, conversation.end_time)
        time_period == categorize_time_period(conversation.start_time)
        st1 == [st EXCEPT !.time_periods =
                   AddToPeriod(@, time_period.value, message_count)]
        first_speaker == conversation.messages[1].role
        conv_info == [index |-> idx + 1,
                      message_count |-> message_count,
                      duration_minutes |-> dur.value,
                      start_time |-> conversation.start_time,
                      end_time |-> conversation.end_time,
                      time_period |-> time_period.value]
        st2 == [st1 EXCEPT
                  !.conversations_started_by[first_speaker] = @ + 1,
                  !.conversation_lengths = Append(@, conv_info),
                  !.shortest_conversation =
                      IF IsNewShortest(message_count, @) THEN conv_info ELSE @,
                  !.longest_conversation =
                      IF IsNewLongest(message_count, @) THEN conv_info ELSE @]
    IN  IF dur.raised # "none" THEN [raised |-> dur.raised, stats |-> st]
        ELSE IF time_period.raised # "none"
             THEN [raised |-> time_period.raised, stats |-> st]
        ELSE IF message_count = 0 THEN [raised |-> "IndexError", stats |-> st1]
        ELSE [raised |-> "none",
              stats |-> CountMessagesOf(st2, conversation.messages)]

\* lines 229-280: the loop from list index idx on, and the return
RECURSIVE StatsLoop(_, _, _)
StatsLoop(st, conversations, idx) ==
    IF idx >= Len(conversations) THEN [raised |-> "none", stats |-> st]
    ELSE LET r == ProcessConversation(st, conversations[idx + 1], idx)
         IN IF r.raised # "none" THEN [raised |-> r.raised, stats |-> PyNone]
            ELSE StatsLoop(r.stats, conversations, idx + 1)

\* the whole call: the exception it raises or the record it returns
get_basic_stats(d) ==
    LET s0 == NewStats(d)
    IN IF s0.raised # "none" THEN s0
       ELSE StatsLoop(s0.stats, d.conversations, 0)

----------------------------------------------------------------------------
(* load_conversation_file, from the value json.load returned *)

\* os.path.basename
Basename(path) ==
    LET pieces == SplitOn(path, "/") IN pieces[Len(pieces)]

\* lines 52-55: the first part that starts with "20" and holds ".json"
RECURSIVE DateOfParts(_, _)
DateOfParts(parts, date) ==
    IF parts = <<>> THEN date
    ELSE IF StartsWith(parts[1], <<"2", "0">>) /\ Contains(parts[1], <<".", "j", "s", "o", "n">>)
         THEN Remove(parts[1], <<".", "j", "s", "o", "n">>)
    ELSE DateOfParts(Tail(parts), date)

\* lines 47-55
DateOfFilename(path) ==
    LET filename == Basename(path)
        date == <<"U", "n", "k", "n", "o", "w", "n", " ", "D", "a", "t", "e">>
    IN IF Contains(filename, <<"2", "0">>)
       THEN DateOfParts(SplitOn(filename, "_"), date)
       ELSE date

\* lines 40-62
load_conversation_file(path, raw) ==
    IF raw.type = "dict" /\ "conversations" \in DOMAIN raw.value
    THEN [raised |-> "none", value |-> raw.value]
    ELSE IF raw.type = "list"
    THEN [raised |-> "none",
          value |-> [date |-> DateOfFilename(path), conversations |-> raw.value]]
    ELSE [raised |-> "ValueError", value |-> PyNone]

----------------------------------------------------------------------------
(* Logs the analysis functions are applied to *)

MaxSessions == 2
MaxMsgs == 2
MaxTopicMsgs == 1
MaxTopN == 3

SeqsUpTo(S, n) == UNION {[1..k -> S] : k \in 0..n}

Text(chars) == [kind |-> "str", text |-> chars]
Nested(items) == [kind |-> "list", items |-> items]

StatsMessages ==
    {[role |-> <<"b", "o", "b">>, content |-> Text(<<"H", "i", "!">>)],
     [role |-> <<"A", "l", "i", "c", "e">>, content |-> Nested(<<<<"o", "k">>>>)]}

\* start and end of a session: in the morning, across midnight, and with a
\* start or an end that strptime rejects
SessionTimes ==
    {<<<<"0", "9", ":", "0", "0", " ", "A", "M">>, <<"0", "9", ":", "1", "0", " ", "A", "M">>>>, <<<<"1", "1", ":", "5", "5", " ", "P", "M">>, <<"1", "2", ":", "0", "5", " ", "A", "M">>>>,
     <<<<"1", "3", ":", "0", "0", " ", "P", "M">>, <<"0", "9", ":", "1", "0", " ", "A", "M">>>>, <<<<"0", "2", ":", "0", "0", " ", "P", "M">>, <<"0", "9", ":", "6", "0", " ", "A", "M">>>>}

SessionsOf(Msgs, Times, n) ==
    {[messages |-> m, start_time |-> t[1], end_time |-> t[2]] :
        m \in SeqsUpTo(Msgs, n), t \in Times}

LogsOf(Sessions) ==
    {[date |-> <<"2", "0", "2", "5", "-", "1", "0", "-", "3", "0">>, conversations |-> c] :
        c \in SeqsUpTo(Sessions, MaxSessions)}

StatsLogs == LogsOf(SessionsOf(StatsMessages, SessionTimes, MaxMsgs))

RoleMessages ==
    {[role |-> r, content |-> Text(<<"H", "i", "!">>)] : r \in {<<"b", "o", "b">>, <<"A", "l", "i", "c", "e">>, <<"c", "a", "r", "o", "l">>}}

RoleLogs == LogsOf(SessionsOf(RoleMessages, {<<<<"0", "9", ":", "0", "0", " ", "A", "M">>, <<"0", "9", ":", "1", "0", " ", "A", "M">>>>}, MaxMsgs))

TopicMessages ==
    {[role |-> <<"b", "o", "b">>, content |-> c] :
        c \in {Text(<<"T", "h", "e", " ", "c", "a", "t", " ", "s", "a", "t">>), Text(<<"D", "o", "g", "!", " ", "c", "a", "t", " ", "o", "n", " ", "a", " ", "m", "a", "t", ".">>),
               Text(<<"c", "-", "a", "-", "t", " ", "i", "t", "'", "s", " ", "B", "I", "G">>), Nested(<<<<"d", "o", "g">>, <<"S", "A", "T">>>>)}}

TopicLogs ==
    LogsOf(SessionsOf(TopicMessages, {<<<<"0", "9", ":", "0", "0", " ", "A", "M">>, <<"0", "9", ":", "1", "0", " ", "A", "M">>>>}, MaxTopicMsgs))

IsWellTimed(conversation) ==
    /\ Strptime(conversation.start_time).raised = "none"
    /\ Strptime(conversation.end_time).raised = "none"

----------------------------------------------------------------------------
(* The calls, as actions *)

IdleTime ==
    /\ start_time = <<>> /\ end_time = <<>> /\ period = Unset /\ duration = Unset
IdleStats == stats = PyNone /\ i = 0 /\ raised = "none"
IdleTopics == top_n = 0 /\ topics = Unset
IdleLoad ==
    /\ filepath = <<>> /\ raw_data = <<>> /\ run = 0
    /\ loaded = <<>> /\ records = <<>>

\* get_basic_stats, lines 204-226
GetBasicStatsBegin ==
    /\ pc = "get_basic_stats"
    /\ LET s0 == NewStats(data)
       IN /\ stats' = s0.stats
          /\ raised' = s0.raised
          /\ pc' = IF s0.raised = "none" THEN "loop" ELSE "raised"
    /\ UNCHANGED <<i, data>>

\* mutant: a session without messages is skipped silently
GetBasicStatsIterate_SkipEmpty ==
    /\ pc = "loop"
    /\ i < Len(data.conversations)
    /\ LET r == ProcessConversation(stats, data.conversations[i + 1], i)
           skip == r.raised = "IndexError"
       IN /\ stats' = r.stats
          /\ raised' = IF skip THEN "none" ELSE r.raised
          /\ i' = IF r.raised = "none" \/ skip THEN i + 1 ELSE i
          /\ pc' = IF r.raised = "none" \/ skip THEN "loop" ELSE "raised"
    /\ UNCHANGED data

\* mutant: a session whose timestamps do not parse is skipped, and the
\* pass continues
GetBasicStatsIterate_SkipIllTimed ==
    /\ pc = "loop"
    /\ i < Len(data.conversations)
    /\ LET r == ProcessConversation(stats, data.conversations[i + 1], i)
           skip == r.raised = "ValueError"
       IN /\ stats' = r.stats
          /\ raised' = IF skip THEN "none" ELSE r.raised
          /\ i' = IF r.raised = "none" \/ skip THEN i + 1 ELSE i
          /\ pc' = IF r.raised = "none" \/ skip THEN "loop" ELSE "raised"
    /\ UNCHANGED data

\* get_basic_stats, lines 229-278: one iteration of the loop
GetBasicStatsIterate ==
    /\ pc = "loop"
    /\ i < Len(data.conversations)
    /\ LET r == ProcessConversation(stats, data.conversations[i + 1], i)
       IN /\ stats' = r.stats
          /\ raised' = r.raised
          /\ i' = IF r.raised = "none" THEN i + 1 ELSE i
          /\ pc' = IF r.raised = "none" THEN "loop" ELSE "raised"
    /\ UNCHANGED data

\* get_basic_stats, line 280
GetBasicStatsReturn ==
    /\ pc = "loop"
    /\ i = Len(data.conversations)
    /\ pc' = "returned"
    /\ UNCHANGED <<stats, i, raised, data>>

DetectParticipants ==
    /\ pc = "detect_participants"
    /\ participants' = detect_participants(data)
    /\ pc' = "detected"
    /\ UNCHANGED data

ExtractTopics ==
    /\ pc = "extract_topics"
    /\ topics' = extract_topics(data, top_n)
    /\ pc' = "extracted"
    /\ UNCHANGED <<data, top_n>>

----------------------------------------------------------------------------
(* Specifications *)

InitStats ==
    /\ pc = "get_basic_stats"
    /\ data \in StatsLogs
    /\ IdleStats /\ IdleTime /\ IdleTopics /\ IdleLoad
    /\ participants = Unset

NextStats ==
    \/ GetBasicStatsBegin /\ UNCHANGED <<timeVars, topicVars, loadVars, participants>>
    \/ GetBasicStatsIterate /\ UNCHANGED <<timeVars, topicVars, loadVars, participants>>
    \/ GetBasicStatsReturn /\ UNCHANGED <<timeVars, topicVars, loadVars, participants>>

SpecStats == InitStats /\ [][NextStats]_vars

InitTimes ==
    /\ InitTime
    /\ data = PyNone
    /\ IdleStats /\ IdleTopics /\ IdleLoad
    /\ participants = Unset

NextTimes ==
    \/ CategorizeTimePeriod /\ UNCHANGED <<data, statsVars, topicVars, loadVars, participants>>
    \/ CalculateDuration /\ UNCHANGED <<data, statsVars, topicVars, loadVars, participants>>

SpecTimes == InitTimes /\ [][NextTimes]_vars

InitParticipants ==
    /\ pc = "detect_participants"
    /\ data \in RoleLogs
    /\ participants = Unset
    /\ IdleStats /\ IdleTime /\ IdleTopics /\ IdleLoad

NextParticipants ==
    DetectParticipants /\ UNCHANGED <<timeVars, statsVars, topicVars, loadVars>>

SpecParticipants == InitParticipants /\ [][NextParticipants]_vars

InitTopics ==
    /\ pc = "extract_topics"
    /\ data \in TopicLogs
    /\ top_n \in 1..MaxTopN
    /\ topics = Unset
    /\ IdleStats /\ IdleTime /\ IdleLoad
    /\ participants = Unset

NextTopics ==
    ExtractTopics /\ UNCHANGED <<timeVars, statsVars, loadVars, participants>>

SpecTopics == InitTopics /\ [][NextTopics]_vars

----------------------------------------------------------------------------
(* Input files: the same sessions as a bare list and wrapped in a mapping, *)
(* and a value of neither shape                                            *)

FilePaths ==
    {<<"l", "o", "g", ".", "j", "s", "o", "n">>, <<"d", "_", "2", "0", "2", "5", "-", "1", "0", "-", "2", "5", ".", "j", "s", "o", "n">>, <<"2", "0", ".", "j", "s", "o", "n">>, <<"a", "_", "2", "0", "2", "4", ".", "j", "s", "o", "n", ".", "j", "s", "o", "n">>,
     <<"2", "0", "2", "0", "/", "l", "o", "g", ".", "j", "s", "o", "n">>, <<"l", "o", "g", "2", "0", ".", "j", "s", "o", "n">>, <<"x", "/", "2", "0", "_", "a", ".", "j", "s", "o", "n">>, <<"d", "_", "2", "0", "2", "5", ".", "t", "x", "t">>}

\* the mapping {"conversations": S}, without a label, with an empty one and
\* with a date
WrappedInputs(S) ==
    {[conversations |-> S],
     [date |-> <<>>, conversations |-> S],
     [date |-> <<"2", "0", "2", "5", "-", "1", "0", "-", "3", "0">>, conversations |-> S]}

\* values load_conversation_file does not recognise
OtherInputs ==
    {[type |-> "dict", value |-> [date |-> <<"2", "0", "2", "5", "-", "1", "0", "-", "3", "0">>]],
     [type |-> "str", value |-> <<"h", "e", "l", "l", "o">>]}

Runs == <<"bare", "wrapped", "other">>

InitLoad ==
    /\ pc = "load"
    /\ filepath \in FilePaths
    /\ \E S \in SeqsUpTo(SessionsOf(StatsMessages, SessionTimes, MaxMsgs), MaxSessions) :
       \E w \in WrappedInputs(S) : \E o \in OtherInputs :
          raw_data = [bare |-> [type |-> "list", value |-> S],
                      wrapped |-> [type |-> "dict", value |-> w],
                      other |-> o]
    /\ run = 1
    /\ loaded = [r \in Range(Runs) |-> Unset]
    /\ records = [r \in Range(Runs) |-> Unset]
    /\ data = PyNone
    /\ IdleStats /\ IdleTime /\ IdleTopics
    /\ participants = Unset

\* main, line 361, for the input of the current run; an exception ends the run
LoadConversationFile ==
    /\ pc = "load"
    /\ run <= Len(Runs)
    /\ LET r == load_conversation_file(filepath, raw_data[Runs[run]])
       IN /\ loaded' = [loaded EXCEPT ![Runs[run]] = r]
          /\ pc' = IF r.raised = "none" THEN "stats" ELSE "load"
          /\ run' = IF r.raised = "none" THEN run ELSE run + 1
    /\ UNCHANGED <<filepath, raw_data, records>>

\* main, line 372, on what load_conversation_file returned
GetBasicStats ==
    /\ pc = "stats"
    /\ records' = [records EXCEPT ![Runs[run]] = get_basic_stats(loaded[Runs[run]].value)]
    /\ pc' = "load"
    /\ run' = run + 1
    /\ UNCHANGED <<filepath, raw_data, loaded>>

NextLoad ==
    \/ LoadConversationFile /\ UNCHANGED <<data, timeVars, statsVars, topicVars, participants>>
    \/ GetBasicStats /\ UNCHANGED <<data, timeVars, statsVars, topicVars, participants>>

SpecLoad == InitLoad /\ [][NextLoad]_vars

----------------------------------------------------------------------------
(* Properties of the time functions, under SpecTimes *)

\* what a well-formed "hh:mm AP" denotes: its hour on the 24-hour clock and
\* its minutes since midnight
ClockHour(t) ==
    ((10 * DigitVal(t[1]) + DigitVal(t[2])) % 12) + (IF t[7] = "P" THEN 12 ELSE 0)
ClockMinutes(t) == 60 * ClockHour(t) + 10 * DigitVal(t[4]) + DigitVal(t[5])

PeriodExamples ==
    {<<<<"0", "6", ":", "0", "0", " ", "A", "M">>, "Morning">>, <<<<"1", "1", ":", "5", "9", " ", "A", "M">>, "Morning">>,
     <<<<"1", "2", ":", "0", "0", " ", "P", "M">>, "Afternoon">>, <<<<"0", "4", ":", "5", "9", " ", "P", "M">>, "Afternoon">>,
     <<<<"0", "5", ":", "0", "0", " ", "P", "M">>, "Evening">>, <<<<"0", "9", ":", "5", "9", " ", "P", "M">>, "Evening">>,
     <<<<"1", "0", ":", "0", "0", " ", "P", "M">>, "Night">>, <<<<"0", "5", ":", "5", "9", " ", "A", "M">>, "Night">>}

\* C1: for every well-formed 12-hour timestamp categorize_time_period
\* converts it to the hour h in 0..23 of the 24-hour clock (12 AM is 0,
\* 12 PM is 12) and returns Morning for 6 <= h < 12, Afternoon for
\* 12 <= h < 17, Evening for 17 <= h < 22 and Night otherwise; the eight
\* boundary timestamps of the specification get the periods it lists.
C1_PeriodOfTimestamp ==
    (pc = "categorized" /\ start_time \in WellFormedTimes) =>
        LET h == ClockHour(start_time)
        IN /\ period.raised = "none"
           /\ Strptime(start_time).hour = h
           /\ h \in 0..23
           /\ (start_time = <<"1", "2", ":", "0", "0", " ", "A", "M">> => Strptime(start_time).hour = 0)
           /\ (start_time = <<"1", "2", ":", "0", "0", " ", "P", "M">> => Strptime(start_time).hour = 12)
           /\ (6 <= h /\ h < 12) => period.value = "Morning"
           /\ (12 <= h /\ h < 17) => period.value = "Afternoon"
           /\ (17 <= h /\ h < 22) => period.value = "Evening"
           /\ (h < 6 \/ h >= 22) => period.value = "Night"
           /\ \A e \in PeriodExamples : start_time = e[1] => period.value = e[2]

C1_Witness ==
    /\ pc = "categorized"
    /\ start_time = <<"1", "0", ":", "0", "0", " ", "P", "M">>
    /\ period = [raised |-> "none", value |-> "Night"]

\* C2: for every pair of well-formed 12-hour timestamps calculate_duration
\* returns the minutes since midnight of end minus those of start, with no
\* rollover: a value in -1439..1439 that is negative exactly when end is
\* earlier on the clock than start (11:55 PM to 12:05 AM is negative, not
\* 10), and 5 for 03:03 PM to 03:08 PM.
C2_DurationIsClockDifference ==
    (pc = "measured" /\ start_time \in WellFormedTimes /\ end_time \in WellFormedTimes) =>
        /\ duration.raised = "none"
        /\ duration.value = ClockMinutes(end_time) - ClockMinutes(start_time)
        /\ duration.value \in -1439..1439
        /\ (duration.value < 0) <=> (ClockMinutes(end_time) < ClockMinutes(start_time))
        /\ (start_time = <<"1", "1", ":", "5", "5", " ", "P", "M">> /\ end_time = <<"1", "2", ":", "0", "5", " ", "A", "M">>) =>
               (duration.value < 0 /\ duration.value # 10)
        /\ (start_time = <<"0", "3", ":", "0", "3", " ", "P", "M">> /\ end_time = <<"0", "3", ":", "0", "8", " ", "P", "M">>) => duration.value = 5

C2_Witness ==
    /\ pc = "measured"
    /\ start_time = <<"1", "1", ":", "5", "5", " ", "P", "M">>
    /\ end_time = <<"1", "2", ":", "0", "5", " ", "A", "M">>
    /\ duration = [raised |-> "none", value |-> -1430]

----------------------------------------------------------------------------
(* Properties of get_basic_stats, under SpecStats *)

MessageCount(k) == Len(data.conversations[k].messages)

\* the lowest index among the first n sessions whose message count is the
\* minimum, and the maximum, over those sessions
FirstShortest(n) ==
    CHOOSE k \in 1..n :
        /\ \A j \in 1..n : MessageCount(j) >= MessageCount(k)
        /\ \A j \in 1..(k - 1) : MessageCount(j) > MessageCount(k)
FirstLongest(n) ==
    CHOOSE k \in 1..n :
        /\ \A j \in 1..n : MessageCount(j) <= MessageCount(k)
        /\ \A j \in 1..(k - 1) : MessageCount(j) < MessageCount(k)

\* C3: once get_basic_stats has processed the sessions of a Log (all of
\* them non-empty and well-timed, at least one), shortest_conversation is
\* the summary of the lowest-index session with the minimal message count
\* and longest_conversation that of the lowest-index session with the
\* maximal one; this holds after every processed session, so a later
\* session with an equal count never replaces the stored extreme.
C3_FirstExtremeWins ==
    (pc \in {"loop", "returned"} /\ i >= 1) =>
        /\ stats.shortest_conversation = stats.conversation_lengths[FirstShortest(i)]
        /\ stats.shortest_conversation.index = FirstShortest(i)
        /\ stats.shortest_conversation.message_count = MessageCount(FirstShortest(i))
        /\ stats.longest_conversation = stats.conversation_lengths[FirstLongest(i)]
        /\ stats.longest_conversation.index = FirstLongest(i)
        /\ stats.longest_conversation.message_count = MessageCount(FirstLongest(i))

C3_Witness ==
    /\ pc = "returned"
    /\ Len(data.conversations) = 2
    /\ MessageCount(1) = MessageCount(2)
    /\ stats.shortest_conversation.index = 1
    /\ stats.longest_conversation.index = 1

Terminated == pc \in {"returned", "raised"}

HasEmptySession ==
    \E k \in 1..Len(data.conversations) : MessageCount(k) = 0

NoEmptySummary ==
    \A k \in 1..Len(stats.conversation_lengths) :
        stats.conversation_lengths[k].message_count # 0

\* the first session the pass cannot process: it is empty or ill-timed
FailsAt(k) ==
    MessageCount(k) = 0 \/ ~IsWellTimed(data.conversations[k])
FirstFailing ==
    CHOOSE k \in 1..Len(data.conversations) :
        FailsAt(k) /\ \A j \in 1..(k - 1) : ~FailsAt(j)

\* C4 as claimed: for every Log with an empty session, whatever its
\* timestamps and position, the run ends in the empty-session error
\* (IndexError) and the session is never counted as processed.
C4_AlwaysEmptySessionError ==
    (Terminated /\ HasEmptySession) =>
        /\ pc = "raised"
        /\ raised = "IndexError"
        /\ NoEmptySummary

\* C4, amended: for every Log with an empty session the run returns no
\* record and stops at the first session that is empty or ill-timed; the
\* error is the empty-session error (IndexError) when that session's
\* timestamps are well-formed and the timestamp error (ValueError) when
\* they are not; no empty session is ever recorded as processed.
C4_EmptySessionAborts ==
    (Terminated /\ HasEmptySession) =>
        /\ pc = "raised"
        /\ i = FirstFailing - 1
        /\ Len(stats.conversation_lengths) = i
        /\ raised = (IF IsWellTimed(data.conversations[FirstFailing])
                     THEN "IndexError" ELSE "ValueError")
        /\ NoEmptySummary

C4_Witness ==
    /\ pc = "raised"
    /\ raised = "IndexError"
    /\ i = 1
    /\ MessageCount(2) = 0
    /\ IsWellTimed(data.conversations[2])

HasIllTimed ==
    \E k \in 1..Len(data.conversations) : ~IsWellTimed(data.conversations[k])
FirstIllTimed ==
    CHOOSE k \in 1..Len(data.conversations) :
        /\ ~IsWellTimed(data.conversations[k])
        /\ \A j \in 1..(k - 1) : IsWellTimed(data.conversations[j])

\* a record is returned only if every session was processed without error
ReturnedMeansAllProcessed ==
    pc = "returned" =>
        /\ i = Len(data.conversations)
        /\ Len(stats.conversation_lengths) = Len(data.conversations)
        /\ \A k \in 1..Len(data.conversations) : ~FailsAt(k)

\* C5 as claimed: when session k is the first with a malformed start or
\* end timestamp, the pass aborts with the timestamp error while processing
\* session k, returns no record and processes no later session; a record
\* is returned only if every session was processed without error.
C5_AbortsAtFirstIllTimed ==
    /\ (Terminated /\ HasIllTimed) =>
          /\ pc = "raised"
          /\ raised = "ValueError"
          /\ i = FirstIllTimed - 1
          /\ Len(stats.conversation_lengths) = i
    /\ ReturnedMeansAllProcessed

\* C5, amended: when session k is the first with a malformed timestamp,
\* the pass returns no record and processes neither session k nor a later
\* one; it aborts with the timestamp error while processing session k
\* unless an earlier session is empty, and then it aborts at the first
\* empty session with the empty-session error; a record is returned only
\* if every session was processed without error.
C5_NoSkipAndContinue ==
    /\ (Terminated /\ HasIllTimed) =>
          /\ pc = "raised"
          /\ i = FirstFailing - 1
          /\ i < FirstIllTimed
          /\ Len(stats.conversation_lengths) = i
          /\ IF FirstFailing = FirstIllTimed
             THEN raised = "ValueError"
             ELSE raised = "IndexError" /\ MessageCount(FirstFailing) = 0
    /\ ReturnedMeansAllProcessed

C5_Witness ==
    /\ pc = "raised"
    /\ raised = "ValueError"
    /\ i = 1
    /\ FirstIllTimed = 2
    /\ Len(stats.conversation_lengths) = 1

RECURSIVE SumOver(_, _)
SumOver(f, D) ==
    IF D = {} THEN 0
    ELSE LET x == CHOOSE y \in D : TRUE IN f[x] + SumOver(f, D \ {x})

SummaryCounts ==
    [k \in 1..Len(stats.conversation_lengths) |->
        stats.conversation_lengths[k].message_count]

\* C10: after every fully processed session, and in the returned record,
\* total_messages equals the sum of messages_by_participant, the sum of the
\* four time_periods totals and the sum of message_count over the session
\* summaries, and every participant has as many length samples as messages.
C10_MessageCountConservation ==
    pc \in {"loop", "returned"} =>
        /\ stats.total_messages =
               SumOver(stats.messages_by_participant, DOMAIN stats.messages_by_participant)
        /\ stats.total_messages =
               SumOver(stats.time_periods, DOMAIN stats.time_periods)
        /\ stats.total_messages = SumOver(SummaryCounts, DOMAIN SummaryCounts)
        /\ \A p \in DOMAIN stats.messages_by_participant :
               Len(stats.message_lengths_by_participant[p]) =
                   stats.messages_by_participant[p]

C10_Witness ==
    /\ pc = "returned"
    /\ stats.total_messages = 3
    /\ DOMAIN stats.messages_by_participant = {<<"b", "o", "b">>, <<"A", "l", "i", "c", "e">>}
    /\ stats.messages_by_participant[<<"b", "o", "b">>] = 2
    /\ stats.messages_by_participant[<<"A", "l", "i", "c", "e">>] = 1
    /\ stats.time_periods.Morning = 1
    /\ stats.time_periods.Night = 2

----------------------------------------------------------------------------
(* Properties of load_conversation_file, under SpecLoad *)

Returned(outcome) == outcome # Unset /\ outcome.raised = "none"

\* C6: whenever load_conversation_file returns, for either accepted input
\* shape, the result is the canonical Log {label, conversations} and its
\* label is present and not empty.
C6_LabelNeverEmpty ==
    \A r \in {"bare", "wrapped"} :
        Returned(loaded[r]) =>
            /\ DOMAIN loaded[r].value = {"date", "conversations"}
            /\ loaded[r].value.date # <<>>

\* the fields of a StatisticsRecord other than the label
SameButLabel(a, b) ==
    /\ DOMAIN a = DOMAIN b
    /\ \A f \in DOMAIN a \ {"date"} : a[f] = b[f]

\* C7: for every sequence of sessions S, get_basic_stats on the normalised
\* bare sequence S and on the normalised mapping {conversations: S} has the
\* same outcome, with records equal in every field but the label.
C7_FormatEquivalence ==
    (records["bare"] # Unset /\ records["wrapped"] # Unset) =>
        /\ records["bare"].raised = records["wrapped"].raised
        /\ records["bare"].raised = "none" =>
               SameButLabel(records["bare"].stats, records["wrapped"].stats)

----------------------------------------------------------------------------
(* Properties of extract_topics, under SpecTopics *)

\* the clean tokens of one message, and those of the Log that survive the
\* filter, in the order they are met
CleanTokens(message) ==
    LET words == SplitWs(Lower(ContentText(message)))
    IN [k \in 1..Len(words) |-> CleanWord(words[k])]
Survives(token) == Len(token) >= 3 /\ token \notin stop_words
RECURSIVE SurvivingTokens(_)
SurvivingTokens(msgs) ==
    IF msgs = <<>> THEN <<>>
    ELSE SelectSeq(CleanTokens(msgs[1]), Survives) \o SurvivingTokens(Tail(msgs))

Occurrences(token, tokens) == Cardinality({k \in 1..Len(tokens) : tokens[k] = token})
FirstMet(token, tokens) ==
    CHOOSE k \in 1..Len(tokens) :
        tokens[k] = token /\ \A j \in 1..(k - 1) : tokens[j] # token

\* the order of the frequency table: count descending, equal counts in the
\* order the tokens were first met
RanksBefore(x, y, tokens) ==
    \/ Occurrences(x, tokens) > Occurrences(y, tokens)
    \/ /\ Occurrences(x, tokens) = Occurrences(y, tokens)
       /\ FirstMet(x, tokens) < FirstMet(y, tokens)

\* C8: for every Log and positive top_n, extract_topics returns the first
\* min(top_n, V) entries of the frequency table of the V distinct surviving
\* tokens, by count descending with equal counts in first-met order, each
\* with the number of occurrences of its token over all messages.
C8_TopicsAreTopOfTable ==
    pc = "extracted" =>
        LET tokens == SurvivingTokens(AllMessages(data.conversations))
            V == Cardinality(Range(tokens))
            returned == {topics[k][1] : k \in 1..Len(topics)}
        IN /\ Len(topics) = (IF top_n < V THEN top_n ELSE V)
           /\ \A k \in 1..Len(topics) :
                 /\ topics[k][1] \in Range(tokens)
                 /\ topics[k][2] = Occurrences(topics[k][1], tokens)
           /\ \A j, k \in 1..Len(topics) :
                 j < k => RanksBefore(topics[j][1], topics[k][1], tokens)
           /\ \A w \in Range(tokens) \ returned :
                 \A k \in 1..Len(topics) : RanksBefore(topics[k][1], w, tokens)

C8_Witness ==
    /\ pc = "extracted"
    /\ top_n = 2
    /\ Cardinality(Range(SurvivingTokens(AllMessages(data.conversations)))) = 4
    /\ topics = <<(<<<<"d", "o", "g">>, 2>>), (<<<<"c", "a", "t">>, 1>>)>>

----------------------------------------------------------------------------
(* Properties of detect_participants, under SpecParticipants *)

\* the roles that appear in some message of some session
RolesOf(d) ==
    UNION {{d.conversations[k].messages[m].role :
                m \in 1..Len(d.conversations[k].messages)} :
           k \in 1..Len(d.conversations)}

\* what detect_participants is to return: every role once and nothing
\* else, in ascending order of Python's string comparison
ParticipantsAreSortedRoles ==
    pc = "detected" =>
        /\ Range(participants) = RolesOf(data)
        /\ \A j, k \in 1..Len(participants) :
               j < k => StrLess(participants[j], participants[k])
        /\ data.conversations = <<>> => participants = <<>>
        /\ RolesOf(data) = {<<"b", "o", "b">>, <<"A", "l", "i", "c", "e">>, <<"c", "a", "r", "o", "l">>} =>
               participants = <<<<"A", "l", "i", "c", "e">>, <<"b", "o", "b">>, <<"c", "a", "r", "o", "l">>>>

\* C9: for every canonical Log detect_participants returns each role that
\* appears in a message exactly once and nothing else, in ascending
\* case-sensitive string order ({bob, Alice, carol} gives Alice, bob,
\* carol), and the empty sequence for a Log without sessions; the call
\* leaves the Log as it was.
C9_SortedDistinctRoles ==
    /\ []ParticipantsAreSortedRoles
    /\ [][data' = data]_vars

C9_Witness ==
    /\ pc = "detected"
    /\ participants = <<<<"A", "l", "i", "c", "e">>, <<"b", "o", "b">>, <<"c", "a", "r", "o", "l">>>>
    /\ Len(AllMessages(data.conversations)) = 4

====
